---- MODULE Spec2Model ----
(***************************************************************************)
(* Function-calling schema generator and validator of                      *)
(* core/utils/generator_schema.py: ParameterConfig, SchemaGenerator        *)
(* (create_schema, _build_property, from_function, _infer_type),           *)
(* CommonSchemas.get_weather and SchemaValidator (validate,                *)
(* get_validation_errors).                                                 *)
(*                                                                         *)
(* Python values are tagged records: k is the Python type of the value,    *)
(* s its text (str, type objects), n its number (int, bool), e its         *)
(* elements (list: the items; dict: the [key, val] entries in insertion    *)
(* order).                                                                 *)
(***************************************************************************)
EXTENDS Integers, Sequences, FiniteSets, TLC

VARIABLES pc, function_name, description, parameters, config, func,
          param_descriptions, schema, prop, valid, errors

vars == <<pc, function_name, description, parameters, config, func,
          param_descriptions, schema, prop, valid, errors>>

----------------------------------------------------------------------------
(* Python values *)

None == [k |-> "none", s |-> "", n |-> 0, e |-> <<>>]

Str(x) == [k |-> "str", s |-> x, n |-> 0, e |-> <<>>]

PyInt(x) == [k |-> "int", s |-> "", n |-> x, e |-> <<>>]

Bool(b) == [k |-> "bool", s |-> "", n |-> IF b THEN 1 ELSE 0, e |-> <<>>]

List(items) == [k |-> "list", s |-> "", n |-> 0, e |-> items]

Dict(entries) == [k |-> "dict", s |-> "", n |-> 0, e |-> entries]

\* a type object (str, int, ..., inspect.Parameter.empty) or a typing alias
Type(x) == [k |-> "type", s |-> x, n |-> 0, e |-> <<>>]

Entry(key, val) == [key |-> key, val |-> val]

\* inspect.Parameter.empty: the marker class of "no annotation / no default"
Empty == Type("inspect._empty")

\* the characters of a str, for iteration and for the substring test of "in"
chars(s) ==
    CASE s = "" -> <<>>
      [] s = "a" -> <<"a">>
      [] s = "b" -> <<"b">>
      [] s = "ab" -> <<"a", "b">>
      [] s = "abc" -> <<"a", "b", "c">>
      [] s = "missing" -> <<"m", "i", "s", "s", "i", "n", "g">>
      [] s = "name" -> <<"n", "a", "m", "e">>
      [] s = "description" -> <<"d", "e", "s", "c", "r", "i", "p", "t", "i", "o", "n">>
      [] s = "parameters" -> <<"p", "a", "r", "a", "m", "e", "t", "e", "r", "s">>
      [] s = "name description parameters" -> <<"n", "a", "m", "e", " ", "d", "e", "s", "c", "r", "i", "p", "t", "i", "o", "n", " ", "p", "a", "r", "a", "m", "e", "t", "e", "r", "s">>

\* bool(v)
truthy(v) ==
    CASE v.k = "none" -> FALSE
      [] v.k \in {"int", "bool"} -> v.n # 0
      [] v.k = "str" -> v.s # ""
      [] v.k \in {"list", "dict"} -> Len(v.e) > 0
      [] OTHER -> TRUE

\* a == b
RECURSIVE PyEq(_, _)
PyEq(a, b) ==
    CASE a.k \in {"int", "bool"} /\ b.k \in {"int", "bool"} -> a.n = b.n
      [] a.k = "list" /\ b.k = "list" ->
            /\ Len(a.e) = Len(b.e)
            /\ \A i \in 1..Len(a.e) : PyEq(a.e[i], b.e[i])
      [] a.k = "dict" /\ b.k = "dict" ->
            /\ Len(a.e) = Len(b.e)
            /\ \A i \in 1..Len(a.e) : \E j \in 1..Len(b.e) :
                   a.e[i].key = b.e[j].key /\ PyEq(a.e[i].val, b.e[j].val)
      [] OTHER -> a = b

\* hash(v) succeeds
hashable(v) == v.k \notin {"list", "dict"}

isinstance_dict(v) == v.k = "dict"

\* d has the method get
has_get(d) == d.k = "dict"

has_key(d, key) == \E i \in 1..Len(d.e) : d.e[i].key = key

\* d.get(key, default) of a dict d
get(d, key, default) ==
    IF has_key(d, key)
    THEN d.e[CHOOSE i \in 1..Len(d.e) : d.e[i].key = key].val
    ELSE default

\* d[key] = val: replaces in place, or appends a new entry
setitem(d, key, val) ==
    IF has_key(d, key)
    THEN Dict([i \in 1..Len(d.e) |->
                 IF d.e[i].key = key THEN Entry(key, val) ELSE d.e[i]])
    ELSE Dict(Append(d.e, Entry(key, val)))

\* sub is a contiguous part of s
is_substring(sub, s) ==
    LET a == chars(sub)
        b == chars(s)
    IN  \E i \in 0..(Len(b) - Len(a)) :
            \A j \in 1..Len(a) : b[i + j] = a[j]

\* "item in container" raises TypeError
in_raises(item, container) ==
    CASE container.k = "dict" -> ~hashable(item)
      [] container.k = "list" -> FALSE
      [] container.k = "str" -> item.k # "str"
      [] OTHER -> TRUE

\* the value of "item in container" when it does not raise
in_value(item, container) ==
    CASE container.k = "dict" -> item.k = "str" /\ has_key(container, item.s)
      [] container.k = "list" ->
            \E i \in 1..Len(container.e) : PyEq(container.e[i], item)
      [] container.k = "str" -> is_substring(item.s, container.s)
      [] OTHER -> FALSE

\* iter(v) succeeds
iterable(v) == v.k \in {"list", "dict", "str"}

\* the items a for loop over v visits, in order
iter_items(v) ==
    CASE v.k = "list" -> v.e
      [] v.k = "dict" -> [i \in 1..Len(v.e) |-> Str(v.e[i].key)]
      [] v.k = "str" -> [i \in 1..Len(chars(v.s)) |-> Str(chars(v.s)[i])]
      [] OTHER -> <<>>

----------------------------------------------------------------------------
(* ParameterConfig and SchemaGenerator *)

\* the dataclass with its field defaults
ParameterConfig(param_type, descr) ==
    [param_type |-> Str(param_type), description |-> Str(descr),
     required |-> FALSE, enum |-> None, minimum |-> None, maximum |-> None,
     min_length |-> None, max_length |-> None, pattern |-> None,
     default |-> None, items |-> None, properties |-> None]

\* prop[key] = val when cond, else prop unchanged
set_if(cond, d, key, val) == IF cond THEN setitem(d, key, val) ELSE d

\* the property built with "if config.minimum:" for the minimum
_build_property_truthy_minimum(cfg) ==
    LET p0 == Dict(<<Entry("type", cfg.param_type),
                     Entry("description", cfg.description)>>)
        p1 == set_if(cfg.enum # None, p0, "enum", cfg.enum)
        p2 == set_if(truthy(cfg.minimum), p1, "minimum", cfg.minimum)
        p3 == set_if(cfg.maximum # None, p2, "maximum", cfg.maximum)
        p4 == set_if(cfg.min_length # None, p3, "minLength", cfg.min_length)
        p5 == set_if(cfg.max_length # None, p4, "maxLength", cfg.max_length)
        p6 == set_if(cfg.pattern # None, p5, "pattern", cfg.pattern)
        p7 == set_if(cfg.default # None, p6, "default", cfg.default)
        p8 == set_if(PyEq(cfg.param_type, Str("array")) /\ cfg.items # None,
                     p7, "items", cfg.items)
        p9 == set_if(PyEq(cfg.param_type, Str("object"))
                        /\ cfg.properties # None,
                     p8, "properties", cfg.properties)
    IN  p9

\* the property built with "if config.default:" for the default
_build_property_truthy_default(cfg) ==
    LET p0 == Dict(<<Entry("type", cfg.param_type),
                     Entry("description", cfg.description)>>)
        p1 == set_if(cfg.enum # None, p0, "enum", cfg.enum)
        p2 == set_if(cfg.minimum # None, p1, "minimum", cfg.minimum)
        p3 == set_if(cfg.maximum # None, p2, "maximum", cfg.maximum)
        p4 == set_if(cfg.min_length # None, p3, "minLength", cfg.min_length)
        p5 == set_if(cfg.max_length # None, p4, "maxLength", cfg.max_length)
        p6 == set_if(cfg.pattern # None, p5, "pattern", cfg.pattern)
        p7 == set_if(truthy(cfg.default), p6, "default", cfg.default)
        p8 == set_if(PyEq(cfg.param_type, Str("array")) /\ cfg.items # None,
                     p7, "items", cfg.items)
        p9 == set_if(PyEq(cfg.param_type, Str("object"))
                        /\ cfg.properties # None,
                     p8, "properties", cfg.properties)
    IN  p9

_build_property(cfg) ==
    LET p0 == Dict(<<Entry("type", cfg.param_type),
                     Entry("description", cfg.description)>>)
        p1 == set_if(cfg.enum # None, p0, "enum", cfg.enum)
        p2 == set_if(cfg.minimum # None, p1, "minimum", cfg.minimum)
        p3 == set_if(cfg.maximum # None, p2, "maximum", cfg.maximum)
        p4 == set_if(cfg.min_length # None, p3, "minLength", cfg.min_length)
        p5 == set_if(cfg.max_length # None, p4, "maxLength", cfg.max_length)
        p6 == set_if(cfg.pattern # None, p5, "pattern", cfg.pattern)
        p7 == set_if(cfg.default # None, p6, "default", cfg.default)
        p8 == set_if(PyEq(cfg.param_type, Str("array")) /\ cfg.items # None,
                     p7, "items", cfg.items)
        p9 == set_if(PyEq(cfg.param_type, Str("object"))
                        /\ cfg.properties # None,
                     p8, "properties", cfg.properties)
    IN  p9

\* schema["function"]["parameters"][field] of a schema built by create_schema
schema_parameters(sch) == get(get(sch, "function", None), "parameters", None)

\* schema["function"]["parameters"][field] = val
set_parameters_field(sch, field, val) ==
    LET fn == get(sch, "function", None)
        ps == get(fn, "parameters", None)
    IN  setitem(sch, "function",
                setitem(fn, "parameters", setitem(ps, field, val)))

\* schema["function"]["parameters"]["properties"][param_name] = prop
set_property(sch, param_name, p) ==
    set_parameters_field(sch, "properties",
        setitem(get(schema_parameters(sch), "properties", None), param_name, p))

\* schema["function"]["parameters"]["required"].append(param_name)
append_required(sch, param_name) ==
    set_parameters_field(sch, "required",
        List(Append(get(schema_parameters(sch), "required", None).e,
                    Str(param_name))))

\* the literal create_schema starts from
schema_skeleton_lazy(fname, descr) ==
    Dict(<<Entry("type", Str("function")),
           Entry("function", Dict(<<
               Entry("name", fname),
               Entry("description", descr),
               Entry("parameters", Dict(<<
                   Entry("type", Str("object"))>>))>>))>>)

schema_skeleton(fname, descr) ==
    Dict(<<Entry("type", Str("function")),
           Entry("function", Dict(<<
               Entry("name", fname),
               Entry("description", descr),
               Entry("parameters", Dict(<<
                   Entry("type", Str("object")),
                   Entry("properties", Dict(<<>>)),
                   Entry("required", List(<<>>))>>))>>))>>)

\* one iteration of the loop over parameters.items()
add_parameter_always_required(sch, param_name, cfg) ==
    append_required(set_property(sch, param_name, _build_property(cfg)),
                    param_name)

add_parameter(sch, param_name, cfg) ==
    LET s1 == set_property(sch, param_name, _build_property(cfg))
    IN  IF cfg.required THEN append_required(s1, param_name) ELSE s1

\* params: the entries [key, val] of the parameter map, in iteration order
create_schema(fname, descr, params) ==
    LET loop[i \in 0..Len(params)] ==
            IF i = 0 THEN schema_skeleton(fname, descr)
            ELSE add_parameter(loop[i - 1], params[i].key, params[i].val)
    IN  loop[Len(params)]

\* the dict literal of _infer_type, keyed by type objects
type_mapping ==
    <<Entry(Type("str"), Str("string")), Entry(Type("int"), Str("integer")),
      Entry(Type("float"), Str("number")), Entry(Type("bool"), Str("boolean")),
      Entry(Type("list"), Str("array")), Entry(Type("dict"), Str("object"))>>

\* the outcome of a call: a returned value, or an exception reaching the caller
Return(v) == [raised |-> "", value |-> v]

Raise(exc) == [raised |-> exc, value |-> None]

_infer_type(annotation) ==
    IF PyEq(annotation, Empty) THEN Return(Str("string"))
    ELSE IF ~hashable(annotation) THEN Raise("TypeError")
    ELSE IF \E i \in 1..Len(type_mapping) :
                PyEq(type_mapping[i].key, annotation)
         THEN Return(type_mapping[CHOOSE i \in 1..Len(type_mapping) :
                         PyEq(type_mapping[i].key, annotation)].val)
         ELSE Return(Str("string"))

\* f.name: func.__name__; f.params: the entries of inspect.signature(func)
\* .parameters in declaration order, each with its name, annotation, default
from_function(f, descr, param_descrs) ==
    LET n == Len(f.params)
        cfgs == [i \in 1..n |->
            LET param == f.params[i]
                param_type == _infer_type(param.annotation).value
                required == PyEq(param.default, Empty)
                c0 == [ParameterConfig("", "") EXCEPT
                         !.param_type = param_type,
                         !.description =
                             get(param_descrs, param.name,
                                 Str("Parámetro " \o param.name)),
                         !.required = required]
            IN  Entry(param.name,
                      IF ~PyEq(param.default, Empty)
                      THEN [c0 EXCEPT !.default = param.default]
                      ELSE c0)]
    IN  IF \E i \in 1..n : _infer_type(f.params[i].annotation).raised # ""
        THEN Raise("TypeError")
        ELSE Return(create_schema(Str(f.name), descr, cfgs))

\* CommonSchemas.get_weather: the parameter map it passes to create_schema
get_weather_parameters ==
    <<Entry("location",
            [ParameterConfig("string", "Ciudad y país (ej: 'Madrid, España')")
               EXCEPT !.required = TRUE, !.min_length = PyInt(2)]),
      Entry("unit",
            [ParameterConfig("string", "Unidad de temperatura")
               EXCEPT !.enum = List(<<Str("celsius"), Str("fahrenheit"),
                                      Str("kelvin")>>),
                      !.default = Str("celsius")]),
      Entry("include_forecast",
            [ParameterConfig("boolean", "Incluir pronóstico extendido")
               EXCEPT !.default = Bool(FALSE)])>>

get_weather ==
    create_schema(Str("get_weather"),
                  Str("Obtiene información del clima actual"),
                  get_weather_parameters)

----------------------------------------------------------------------------
(* SchemaValidator *)

required_keys == <<"name", "description", "parameters">>

\* repr(v), and str(v) as an f-string formats it
RECURSIVE repr(_)
repr(v) ==
    CASE v.k = "str" -> "'" \o v.s \o "'"
      [] v.k = "int" -> ToString(v.n)
      [] v.k = "bool" -> IF v.n = 1 THEN "True" ELSE "False"
      [] v.k = "none" -> "None"
      [] v.k = "list" ->
            LET join[i \in 0..Len(v.e)] ==
                    IF i = 0 THEN ""
                    ELSE join[i - 1] \o (IF i = 1 THEN "" ELSE ", ")
                                     \o repr(v.e[i])
            IN  "[" \o join[Len(v.e)] \o "]"

format(v) == IF v.k = "str" THEN v.s ELSE repr(v)

\* the try block with the required-in-properties test left out
validate_try_no_required_check(sch) ==
    IF ~isinstance_dict(sch) THEN Return(FALSE)
    ELSE IF ~PyEq(get(sch, "type", None), Str("function")) THEN Return(FALSE)
    ELSE
    LET function_def == get(sch, "function", Dict(<<>>))
    IN  IF in_raises(Str(required_keys[1]), function_def)
        THEN Raise("TypeError")
        ELSE IF ~\A i \in 1..Len(required_keys) :
                    in_value(Str(required_keys[i]), function_def)
        THEN Return(FALSE)
        ELSE IF ~has_get(function_def) THEN Raise("AttributeError")
        ELSE
        LET params == get(function_def, "parameters", Dict(<<>>))
        IN  IF ~has_get(params) THEN Raise("AttributeError")
            ELSE IF ~PyEq(get(params, "type", None), Str("object"))
            THEN Return(FALSE)
            ELSE
            LET properties == get(params, "properties", Dict(<<>>))
                required == get(params, "required", List(<<>>))
                items == iter_items(required)
                \* the first iteration that leaves the loop, 0 if none does
                stop == IF \E i \in 1..Len(items) :
                               \/ in_raises(items[i], properties)
                               \/ ~in_value(items[i], properties)
                        THEN CHOOSE i \in 1..Len(items) :
                               /\ \/ in_raises(items[i], properties)
                                  \/ ~in_value(items[i], properties)
                               /\ \A j \in 1..(i - 1) :
                                     /\ ~in_raises(items[j], properties)
                                     /\ in_value(items[j], properties)
                        ELSE 0
            IN  IF ~iterable(required) THEN Raise("TypeError")
                ELSE IF stop = 0 THEN Return(TRUE)
                ELSE IF in_raises(items[stop], properties)
                THEN Raise("TypeError")
                ELSE Return(TRUE)

\* the body of the try block of validate
validate_try(sch) ==
    IF ~isinstance_dict(sch) THEN Return(FALSE)
    ELSE IF ~PyEq(get(sch, "type", None), Str("function")) THEN Return(FALSE)
    ELSE
    LET function_def == get(sch, "function", Dict(<<>>))
    IN  IF in_raises(Str(required_keys[1]), function_def)
        THEN Raise("TypeError")
        ELSE IF ~\A i \in 1..Len(required_keys) :
                    in_value(Str(required_keys[i]), function_def)
        THEN Return(FALSE)
        ELSE IF ~has_get(function_def) THEN Raise("AttributeError")
        ELSE
        LET params == get(function_def, "parameters", Dict(<<>>))
        IN  IF ~has_get(params) THEN Raise("AttributeError")
            ELSE IF ~PyEq(get(params, "type", None), Str("object"))
            THEN Return(FALSE)
            ELSE
            LET properties == get(params, "properties", Dict(<<>>))
                required == get(params, "required", List(<<>>))
                items == iter_items(required)
                \* the first iteration that leaves the loop, 0 if none does
                stop == IF \E i \in 1..Len(items) :
                               \/ in_raises(items[i], properties)
                               \/ ~in_value(items[i], properties)
                        THEN CHOOSE i \in 1..Len(items) :
                               /\ \/ in_raises(items[i], properties)
                                  \/ ~in_value(items[i], properties)
                               /\ \A j \in 1..(i - 1) :
                                     /\ ~in_raises(items[j], properties)
                                     /\ in_value(items[j], properties)
                        ELSE 0
            IN  IF ~iterable(required) THEN Raise("TypeError")
                ELSE IF stop = 0 THEN Return(TRUE)
                ELSE IF in_raises(items[stop], properties)
                THEN Raise("TypeError")
                ELSE Return(FALSE)

\* try: ... except Exception: return False
validate(sch) ==
    LET r == validate_try(sch)
    IN  IF r.raised # "" THEN FALSE ELSE r.value

\* the listing that returns once a key of function is missing
get_validation_errors_stop_at_missing_key(sch) ==
    IF ~isinstance_dict(sch)
    THEN Return(<<"Schema debe ser un diccionario">>)
    ELSE
    LET e1 == IF ~PyEq(get(sch, "type", None), Str("function"))
              THEN <<"Tipo debe ser 'function'">> ELSE <<>>
        function_def == get(sch, "function", None)
    IN  IF ~truthy(function_def)
        THEN Return(Append(e1, "Falta definición de 'function'"))
        ELSE IF in_raises(Str(required_keys[1]), function_def)
        THEN Raise("TypeError")
        ELSE
        LET key_errors[i \in 0..Len(required_keys)] ==
                IF i = 0 THEN e1
                ELSE IF ~in_value(Str(required_keys[i]), function_def)
                THEN Append(key_errors[i - 1],
                            "Falta campo requerido: function."
                                \o required_keys[i])
                ELSE key_errors[i - 1]
            e2 == key_errors[Len(required_keys)]
        IN  IF e2 # e1 THEN Return(e2)
            ELSE IF ~has_get(function_def) THEN Raise("AttributeError")
            ELSE
            LET params == get(function_def, "parameters", Dict(<<>>))
            IN  IF ~has_get(params) THEN Raise("AttributeError")
                ELSE
                LET e3 == IF ~PyEq(get(params, "type", None), Str("object"))
                          THEN Append(e2, "parameters.type debe ser 'object'")
                          ELSE e2
                    properties == get(params, "properties", Dict(<<>>))
                    required == get(params, "required", List(<<>>))
                    items == iter_items(required)
                    req_errors[i \in 0..Len(items)] ==
                        IF i = 0 THEN e3
                        ELSE IF ~in_raises(items[i], properties)
                                /\ ~in_value(items[i], properties)
                        THEN Append(req_errors[i - 1],
                                    "Parámetro requerido '" \o format(items[i])
                                        \o "' no está en properties")
                        ELSE req_errors[i - 1]
                IN  IF ~iterable(required) THEN Raise("TypeError")
                    ELSE IF \E i \in 1..Len(items) :
                                in_raises(items[i], properties)
                    THEN Raise("TypeError")
                    ELSE Return(req_errors[Len(items)])

get_validation_errors(sch) ==
    IF ~isinstance_dict(sch)
    THEN Return(<<"Schema debe ser un diccionario">>)
    ELSE
    LET e1 == IF ~PyEq(get(sch, "type", None), Str("function"))
              THEN <<"Tipo debe ser 'function'">> ELSE <<>>
        function_def == get(sch, "function", None)
    IN  IF ~truthy(function_def)
        THEN Return(Append(e1, "Falta definición de 'function'"))
        ELSE IF in_raises(Str(required_keys[1]), function_def)
        THEN Raise("TypeError")
        ELSE
        LET key_errors[i \in 0..Len(required_keys)] ==
                IF i = 0 THEN e1
                ELSE IF ~in_value(Str(required_keys[i]), function_def)
                THEN Append(key_errors[i - 1],
                            "Falta campo requerido: function."
                                \o required_keys[i])
                ELSE key_errors[i - 1]
            e2 == key_errors[Len(required_keys)]
        IN  IF ~has_get(function_def) THEN Raise("AttributeError")
            ELSE
            LET params == get(function_def, "parameters", Dict(<<>>))
            IN  IF ~has_get(params) THEN Raise("AttributeError")
                ELSE
                LET e3 == IF ~PyEq(get(params, "type", None), Str("object"))
                          THEN Append(e2, "parameters.type debe ser 'object'")
                          ELSE e2
                    properties == get(params, "properties", Dict(<<>>))
                    required == get(params, "required", List(<<>>))
                    items == iter_items(required)
                    req_errors[i \in 0..Len(items)] ==
                        IF i = 0 THEN e3
                        ELSE IF ~in_raises(items[i], properties)
                                /\ ~in_value(items[i], properties)
                        THEN Append(req_errors[i - 1],
                                    "Parámetro requerido '" \o format(items[i])
                                        \o "' no está en properties")
                        ELSE req_errors[i - 1]
                IN  IF ~iterable(required) THEN Raise("TypeError")
                    ELSE IF \E i \in 1..Len(items) :
                                in_raises(items[i], properties)
                    THEN Raise("TypeError")
                    ELSE Return(req_errors[Len(items)])

----------------------------------------------------------------------------
(* Inputs *)

\* most entries of a parameter map handed to create_schema
MaxParams == 3

\* most declared parameters of a callable handed to from_function
MaxSigParams == 2

SeqsUpTo(S, n) == UNION {[1..m -> S] : m \in 0..n}

distinct_keys(entries) ==
    \A i, j \in 1..Len(entries) : entries[i].key = entries[j].key => i = j

ParamNames == {"location", "unit", "include_forecast", "to"}

ConfigPool ==
    {get_weather_parameters[i].val : i \in 1..Len(get_weather_parameters)}
    \cup {[ParameterConfig("array", "Lista de destinatarios")
             EXCEPT !.required = TRUE,
                    !.items = Dict(<<Entry("type", Str("string"))>>)]}

\* parameter maps: a Python dict keeps insertion order and has unique keys
ParameterMaps ==
    {m \in SeqsUpTo({Entry(nm, c) : nm \in ParamNames, c \in ConfigPool},
                    MaxParams) : distinct_keys(m)}

FunctionNames == {Str("get_weather"), Str("")}

Descriptions == {Str("Obtiene información del clima actual")}

JsonTypes == {"string", "number", "integer", "boolean", "array", "object"}

\* single configs: every optional field absent, or present (with a falsy
\* value where the field has one)
Configs ==
    {[param_type |-> Str(ty), description |-> Str("Unidad de temperatura"),
      required |-> rq, enum |-> en, minimum |-> mn, maximum |-> mx,
      min_length |-> ml, max_length |-> xl, pattern |-> pt, default |-> df,
      items |-> it, properties |-> pr] :
        ty \in JsonTypes, rq \in BOOLEAN,
        en \in {None, List(<<>>)},
        mn \in {None, PyInt(0)},
        mx \in {None, PyInt(15)},
        ml \in {None, PyInt(0)},
        xl \in {None, PyInt(255)},
        pt \in {None, Str("")},
        df \in {None, Bool(FALSE), PyInt(0), Str(""), Str("celsius")},
        it \in {None, Dict(<<>>)},
        pr \in {None, Dict(<<>>)}}

\* annotations: absent, the six mapped types, an unmapped type, parameterised
\* containers, a string (postponed) annotation, a list literal
Annotations ==
    {Empty, Type("str"), Type("int"), Type("float"), Type("bool"),
     Type("list"), Type("dict"), Type("bytes"), Type("typing.List[int]"),
     Type("dict[str, int]"), Str("int"), List(<<Type("int")>>)}

\* declared defaults: none, and values of every truthiness
Defaults ==
    {Empty, None, Bool(FALSE), PyInt(0), Str(""),
     Str("datos_negocio_simulado.xlsx")}

\* declarations (annotation, default) the callables are built from
Declarations ==
    {[annotation |-> a, default |-> Empty] : a \in Annotations}
    \cup {[annotation |-> Empty, default |-> d] : d \in Defaults}
    \cup {[annotation |-> Type("bool"), default |-> Bool(FALSE)],
          [annotation |-> Type("str"),
           default |-> Str("datos_negocio_simulado.xlsx")]}

SigNames == {"file_path", "args", "kwargs"}

Signatures ==
    {sg \in SeqsUpTo({[name |-> nm, annotation |-> d.annotation,
                       default |-> d.default] :
                         nm \in SigNames, d \in Declarations}, MaxSigParams) :
        \A i, j \in 1..Len(sg) : sg[i].name = sg[j].name => i = j}

Callables == {[name |-> "extract_information_excel", params |-> sg] :
                 sg \in Signatures}

ParamDescriptions ==
    {Dict(<<>>), Dict(<<Entry("file_path", Str("Archivo Excel a analizar"))>>)}

\* a dict of the entries whose value is given (Absent leaves the key out)
Absent == [k |-> "absent", s |-> "", n |-> 0, e |-> <<>>]

DictOf(entries) == Dict(SelectSeq(entries, LAMBDA en : en.val # Absent))

PropertiesValues ==
    {Absent, None, PyInt(5), Str("ab"), List(<<Str("a")>>), Dict(<<>>),
     Dict(<<Entry("a", Dict(<<Entry("type", Str("string"))>>))>>),
     Dict(<<Entry("a", Dict(<<>>)), Entry("b", Dict(<<>>))>>)}

RequiredValues ==
    {Absent, None, PyInt(5), Str(""), Str("a"), Str("ab"), List(<<>>),
     List(<<Str("a")>>), List(<<Str("missing")>>),
     List(<<Str("b"), Str("a")>>),
     List(<<Str("a"), Str("missing"), Str("b")>>),
     List(<<PyInt(1)>>), List(<<List(<<PyInt(1)>>)>>)}

ParametersValues ==
    {Absent, None, PyInt(5), Str("object")}
    \cup {DictOf(<<Entry("type", ty), Entry("properties", pr),
                   Entry("required", rq)>>) :
             ty \in {Absent, Str("object"), Str("array")},
             pr \in PropertiesValues, rq \in RequiredValues}

FunctionValues ==
    {Absent, None, PyInt(0), PyInt(5), Str(""), Str("abc"),
     Str("name description parameters"), List(<<>>),
     List(<<Str("name"), Str("description"), Str("parameters")>>)}
    \cup {DictOf(<<Entry("name", nm), Entry("description", ds),
                   Entry("parameters", ps)>>) :
             nm \in {Absent, Str("x")}, ds \in {Absent, Str("d")},
             ps \in ParametersValues}

\* documents handed to the validator: well formed, malformed, partially built
Documents ==
    {None, PyInt(5), Str("function"), List(<<>>)}
    \cup {DictOf(<<Entry("type", ty), Entry("function", fn)>>) :
             ty \in {Absent, Str("function"), Str("object")},
             fn \in FunctionValues}

----------------------------------------------------------------------------
(* State machine: an input is chosen, a generator or the validator runs *)

NotRun == [raised |-> "unset", value |-> <<>>]

NoFunc == [name |-> "", params |-> <<>>]

Init ==
    \/ /\ pc = "parameters"
       /\ function_name \in FunctionNames
       /\ description \in Descriptions
       /\ parameters \in ParameterMaps
       /\ config = ParameterConfig("", "") /\ func = NoFunc
       /\ param_descriptions = Dict(<<>>) /\ schema = None /\ prop = None
       /\ valid = "unset" /\ errors = NotRun
    \/ /\ pc = "config"
       /\ config \in Configs
       /\ function_name = Str("") /\ description = Str("")
       /\ parameters = <<>> /\ func = NoFunc
       /\ param_descriptions = Dict(<<>>) /\ schema = None /\ prop = None
       /\ valid = "unset" /\ errors = NotRun
    \/ /\ pc = "callable"
       /\ func \in Callables
       /\ description \in Descriptions
       /\ param_descriptions \in ParamDescriptions
       /\ function_name = Str("") /\ parameters = <<>>
       /\ config = ParameterConfig("", "") /\ schema = None /\ prop = None
       /\ valid = "unset" /\ errors = NotRun
    \/ /\ pc = "document"
       /\ schema \in Documents
       /\ function_name = Str("") /\ description = Str("")
       /\ parameters = <<>> /\ config = ParameterConfig("", "")
       /\ func = NoFunc /\ param_descriptions = Dict(<<>>) /\ prop = None
       /\ valid = "unset" /\ errors = NotRun

create_schema_call ==
    /\ pc = "parameters"
    /\ schema' = create_schema(function_name, description, parameters)
    /\ pc' = "created"
    /\ UNCHANGED <<function_name, description, parameters, config, func,
                   param_descriptions, prop, valid, errors>>

_build_property_call ==
    /\ pc = "config"
    /\ prop' = _build_property(config)
    /\ pc' = "property"
    /\ UNCHANGED <<function_name, description, parameters, config, func,
                   param_descriptions, schema, valid, errors>>

from_function_call ==
    /\ pc = "callable"
    /\ LET r == from_function(func, description, param_descriptions)
       IN  IF r.raised # ""
           THEN pc' = "raised" /\ schema' = schema
           ELSE pc' = "inferred" /\ schema' = r.value
    /\ UNCHANGED <<function_name, description, parameters, config, func,
                   param_descriptions, prop, valid, errors>>

validate_call ==
    /\ pc \in {"document", "created", "inferred"}
    /\ valid = "unset"
    /\ valid' = IF validate(schema) THEN "true" ELSE "false"
    /\ UNCHANGED <<pc, function_name, description, parameters, config, func,
                   param_descriptions, schema, prop, errors>>

get_validation_errors_call ==
    /\ pc \in {"document", "created", "inferred"}
    /\ errors = NotRun
    /\ errors' = get_validation_errors(schema)
    /\ UNCHANGED <<pc, function_name, description, parameters, config, func,
                   param_descriptions, schema, prop, valid>>

Next ==
    \/ create_schema_call
    \/ _build_property_call
    \/ from_function_call
    \/ validate_call
    \/ get_validation_errors_call

Spec == Init /\ [][Next]_vars

TypeOK ==
    /\ pc \in {"parameters", "config", "callable", "document", "created",
               "property", "inferred", "raised"}
    /\ valid \in {"unset", "true", "false"}
    /\ errors.raised \in {"unset", "", "TypeError", "AttributeError"}

----------------------------------------------------------------------------
(* Properties *)

\* the entry of a mapping under key; Absent when there is none
field(v, key) == IF v.k = "dict" THEN get(v, key, Absent) ELSE Absent

function_of(sch) == field(sch, "function")

parameters_of(sch) == field(function_of(sch), "parameters")

properties_of(sch) == field(parameters_of(sch), "properties")

required_of(sch) == field(parameters_of(sch), "required")

keys(d) == [i \in 1..Len(d.e) |-> d.e[i].key]

Range(sq) == {sq[i] : i \in 1..Len(sq)}

Map(sq, Op(_)) == [i \in 1..Len(sq) |-> Op(sq[i])]

\* C1: every document create_schema returns is accepted by validate and has
\* the fixed shape: discriminator "function", a function entry with name,
\* description and parameters, parameters discriminator "object", properties
\* and required present (also for an empty map), every required name a key
\* of properties.
C1_CreatedSchemaIsValid ==
    pc = "created" =>
        /\ valid # "unset" => valid = "true"
        /\ validate(schema)
        /\ get(schema, "type", Absent) = Str("function")
        /\ get(function_of(schema), "name", Absent) = function_name
        /\ get(function_of(schema), "description", Absent) = description
        /\ get(parameters_of(schema), "type", Absent) = Str("object")
        /\ properties_of(schema).k = "dict"
        /\ required_of(schema).k = "list"
        /\ \A r \in Range(required_of(schema).e) :
               r.k = "str" /\ has_key(properties_of(schema), r.s)

C1_Witness ==
    /\ pc = "created"
    /\ valid = "true"
    /\ Len(parameters) = 0
    /\ properties_of(schema) = Dict(<<>>)
    /\ required_of(schema) = List(<<>>)

\* C2: the required list of a created schema is the subsequence of the map's
\* keys, in iteration order, whose config has required = true (nothing added,
\* dropped, repeated or reordered), and the keys of properties are the keys
\* of the map.
C2_RequiredInEncounterOrder ==
    pc = "created" =>
        /\ required_of(schema) =
               List(Map(SelectSeq(parameters, LAMBDA en : en.val.required),
                        LAMBDA en : Str(en.key)))
        /\ keys(properties_of(schema)) = Map(parameters, LAMBDA en : en.key)

C2_Witness ==
    /\ pc = "created"
    /\ Map(parameters, LAMBDA en : en.key)
           = <<"unit", "include_forecast", "location">>
    /\ required_of(schema) = List(<<Str("unit"), Str("location")>>)

\* the optional fields _build_property copies whatever the type is
FieldKeys ==
    {[field |-> "enum", key |-> "enum"],
     [field |-> "minimum", key |-> "minimum"],
     [field |-> "maximum", key |-> "maximum"],
     [field |-> "min_length", key |-> "minLength"],
     [field |-> "max_length", key |-> "maxLength"],
     [field |-> "pattern", key |-> "pattern"],
     [field |-> "default", key |-> "default"]}

expected_property_keys(cfg) ==
    {"type", "description"}
    \cup {fk.key : fk \in {x \in FieldKeys : cfg[x.field] # None}}
    \cup (IF cfg.param_type = Str("array") /\ cfg.items # None
          THEN {"items"} ELSE {})
    \cup (IF cfg.param_type = Str("object") /\ cfg.properties # None
          THEN {"properties"} ELSE {})

\* C3: the keys of a built property are type and description, each of enum,
\* minimum, maximum, minLength, maxLength, pattern, default iff its config
\* field is not None (whatever the type and the other fields), items iff the
\* type is "array" and items is not None, properties iff the type is "object"
\* and properties is not None; every key carries the config's value, and the
\* description is the config's, not the function's.
C3_PropertyKeys ==
    /\ pc = "property" =>
        /\ Range(keys(prop)) = expected_property_keys(config)
        /\ Len(prop.e) = Cardinality(expected_property_keys(config))
        /\ get(prop, "type", Absent) = config.param_type
        /\ get(prop, "description", Absent) = config.description
        /\ \A fk \in FieldKeys :
               has_key(prop, fk.key) =>
                   get(prop, fk.key, Absent) = config[fk.field]
        /\ has_key(prop, "items") => get(prop, "items", Absent) = config.items
        /\ has_key(prop, "properties") =>
               get(prop, "properties", Absent) = config.properties
    /\ pc = "created" =>
        \A i \in 1..Len(parameters) :
            get(get(properties_of(schema), parameters[i].key, Absent),
                "description", Absent) = parameters[i].val.description

C3_Witness ==
    /\ pc = "property"
    /\ config.param_type = Str("boolean")
    /\ config.minimum = PyInt(0)
    /\ config.pattern = Str("")
    /\ config.enum = None
    /\ config.items # None
    /\ Range(keys(prop)) = {"type", "description", "minimum", "pattern"}

FalsyDefaults == {Bool(FALSE), PyInt(0), Str("")}

\* C4 as claimed: a default of False, 0 or "" is treated as absent, so the
\* built property has no default key (also for include_forecast of
\* get_weather).
C4_FalsyDefaultDropped ==
    /\ (pc = "property" /\ config.default \in FalsyDefaults) =>
           ~has_key(prop, "default")
    /\ (pc = "created" /\ schema = get_weather) =>
           ~has_key(get(properties_of(schema), "include_forecast", Absent),
                    "default")

\* C4 amended: only None counts as an absent default; a default of False, 0
\* or "" is emitted under the default key with its value (include_forecast
\* of get_weather carries default False).
C4_FalsyDefaultKept ==
    /\ (pc = "property" /\ config.default \in FalsyDefaults) =>
           get(prop, "default", Absent) = config.default
    /\ (pc = "property" /\ config.default = None) => ~has_key(prop, "default")
    /\ (pc = "created" /\ parameters = get_weather_parameters) =>
           get(get(properties_of(schema), "include_forecast", Absent),
               "default", Absent) = Bool(FALSE)

C4_Witness ==
    /\ pc = "created"
    /\ function_name = Str("get_weather")
    /\ schema = get_weather
    /\ has_key(get(properties_of(schema), "include_forecast", Absent),
               "default")

\* the five structural checks, read on the document's shape
five_checks(sch) ==
    /\ sch.k = "dict"
    /\ get(sch, "type", Absent) = Str("function")
    /\ function_of(sch).k = "dict"
    /\ \A i \in 1..Len(required_keys) :
           has_key(function_of(sch), required_keys[i])
    /\ parameters_of(sch).k = "dict"
    /\ get(parameters_of(sch), "type", Absent) = Str("object")
    /\ required_of(sch) = Absent \/ required_of(sch).k = "list"
    /\ \A r \in Range(required_of(sch).e) :
           /\ r.k = "str"
           /\ properties_of(sch).k = "dict"
           /\ has_key(properties_of(sch), r.s)

wrong_shape(v) == v.k \in {"none", "int", "bool", "str"}

\* C5 as claimed: validate returns true exactly when the five checks hold,
\* and false for a non-mapping, the empty mapping, a missing function, a
\* function, parameters or required entry that is null or a scalar, and a
\* required name absent from properties.
C5_ValidateIffFiveChecks ==
    valid # "unset" =>
        /\ (valid = "true") <=> five_checks(schema)
        /\ (\/ schema.k # "dict"
            \/ schema = Dict(<<>>)
            \/ ~has_key(schema, "function")
            \/ wrong_shape(function_of(schema))
            \/ wrong_shape(parameters_of(schema))
            \/ wrong_shape(required_of(schema))) => valid = "false"

\* C6 as claimed: get_validation_errors never raises, it returns a list.
C6_ErrorsNeverRaise == errors.raised \in {"unset", ""}

discriminator_errors(sch) ==
    IF get(sch, "type", Absent) = Str("function") THEN <<>>
    ELSE <<"Tipo debe ser 'function'">>

missing_function_errors(sch) ==
    discriminator_errors(sch) \o <<"Falta definición de 'function'">>

\* one message per violated check, none skipped
all_errors(sch) ==
    discriminator_errors(sch)
    \o Map(SelectSeq(required_keys,
                     LAMBDA key : ~has_key(function_of(sch), key)),
           LAMBDA key : "Falta campo requerido: function." \o key)
    \o (IF get(parameters_of(sch), "type", Absent) = Str("object") THEN <<>>
        ELSE <<"parameters.type debe ser 'object'">>)
    \o Map(SelectSeq(required_of(sch).e,
                     LAMBDA r : ~has_key(properties_of(sch), r.s)),
           LAMBDA r : "Parámetro requerido '" \o r.s
                          \o "' no está en properties")

\* function is present and function, parameters, properties are mappings
\* (parameters and properties may be left out), required a list of names
mapping_shaped(sch) ==
    /\ sch.k = "dict"
    /\ has_key(sch, "function")
    /\ function_of(sch).k = "dict"
    /\ parameters_of(sch).k \in {"absent", "dict"}
    /\ properties_of(sch).k \in {"absent", "dict"}
    /\ required_of(sch).k \in {"absent", "list"}
    /\ \A r \in Range(required_of(sch).e) : r.k = "str"

missing_example ==
    Dict(<<Entry("type", Str("function")),
           Entry("function", Dict(<<
               Entry("name", Str("x")), Entry("description", Str("d")),
               Entry("parameters", Dict(<<
                   Entry("type", Str("object")),
                   Entry("properties", Dict(<<>>)),
                   Entry("required", List(<<Str("missing")>>))>>))>>))>>)

returned(r) == r.raised = ""

\* C7 as claimed: a non-mapping yields one message; a mapping without a
\* function entry yields the discriminator message (if violated) and the
\* missing-function message; every mapping whose function entry is present
\* yields one message per violated check, in order.
C7_ErrorsListOnlyShortCircuitsOnAbsent ==
    errors.raised # "unset" =>
        /\ schema.k # "dict" => returned(errors) /\ Len(errors.value) = 1
        /\ (schema.k = "dict" /\ ~has_key(schema, "function")) =>
               returned(errors)
               /\ errors.value = missing_function_errors(schema)
        /\ mapping_shaped(schema) =>
               returned(errors) /\ errors.value = all_errors(schema)

\* C7 amended: the second short-circuit is taken when the function entry is
\* absent or falsy (None, 0, "", an empty list, an empty mapping); every
\* mapping whose function entry is a non-empty mapping yields one message
\* per violated check, in order; the example with required = ["missing"]
\* yields the one message naming missing.
C7_ErrorsListShortCircuitsOnFalsy ==
    errors.raised # "unset" =>
        /\ schema.k # "dict" => returned(errors) /\ Len(errors.value) = 1
        /\ (schema.k = "dict" /\ ~truthy(get(schema, "function", None))) =>
               returned(errors)
               /\ errors.value = missing_function_errors(schema)
        /\ (mapping_shaped(schema) /\ truthy(function_of(schema))) =>
               returned(errors) /\ errors.value = all_errors(schema)
        /\ schema = missing_example =>
               errors.value =
                   <<"Parámetro requerido 'missing' no está en properties">>

C7_Witness ==
    /\ pc = "document"
    /\ has_key(schema, "function")
    /\ function_of(schema) = Dict(<<>>)
    /\ get(schema, "type", Absent) = Str("object")
    /\ returned(errors)
    /\ errors.value = <<"Tipo debe ser 'function'",
                        "Falta definición de 'function'">>

\* C8 as claimed: a parameter is required iff it declares no default; a
\* declared default (None, False, 0 included) appears under the default key
\* and an undeclared one gives no default key; properties and required
\* follow declaration order; the name is the callable's.
C8_DefaultsAttached ==
    pc = "inferred" =>
        /\ get(function_of(schema), "name", Absent) = Str(func.name)
        /\ keys(properties_of(schema)) =
               Map(func.params, LAMBDA pa : pa.name)
        /\ required_of(schema) =
               List(Map(SelectSeq(func.params, LAMBDA pa : pa.default = Empty),
                        LAMBDA pa : Str(pa.name)))
        /\ \A i \in 1..Len(func.params) :
               LET pa == func.params[i]
                   pr == get(properties_of(schema), pa.name, Absent)
               IN  IF pa.default = Empty THEN ~has_key(pr, "default")
                   ELSE get(pr, "default", Absent) = pa.default

expected_type(annotation) ==
    CASE annotation = Type("str") -> "string"
      [] annotation = Type("int") -> "integer"
      [] annotation = Type("float") -> "number"
      [] annotation = Type("bool") -> "boolean"
      [] annotation = Type("list") -> "array"
      [] annotation = Type("dict") -> "object"
      [] OTHER -> "string"

\* C9 as claimed: type inference never fails; every annotation gives the
\* type of the fixed mapping, and "string" when it is not one of the six.
C9_InferenceTotal ==
    /\ pc # "raised"
    /\ pc = "inferred" =>
           \A i \in 1..Len(func.params) :
               get(get(properties_of(schema), func.params[i].name, Absent),
                   "type", Absent)
                 = Str(expected_type(func.params[i].annotation))

\* C10: whenever get_validation_errors returns a list, the list is empty
\* exactly when validate returns true on the same document.
validators_agree ==
    (valid # "unset" /\ returned(errors)) =>
        ((errors.value = <<>>) <=> (valid = "true"))

\* C10: the validators agree as a gate, and neither changes the document it
\* inspects.
C10_ValidatorsAgree ==
    /\ []validators_agree
    /\ [][(valid' # valid \/ errors' # errors) => schema' = schema]_vars

C10_Witness ==
    /\ pc = "document"
    /\ has_key(schema, "function")
    /\ function_of(schema) = Dict(<<>>)
    /\ get(schema, "type", Absent) = Str("function")
    /\ valid = "false"
    /\ returned(errors)
    /\ errors.value = <<"Falta definición de 'function'">>

====
